---- MODULE Spec2Model ----
(***************************************************************************)
(* Path-integration rover (src/src/rover.py) and its polarized-light sun   *)
(* compass (src/src/sensor.py).                                            *)
(*                                                                         *)
(* Number representation.  The program computes in float64; the model      *)
(* computes in fixed point:                                                *)
(*   - a length is an integer number of units, Scale units to the metre;   *)
(*   - a non-negative real that the program obtains from a norm is carried *)
(*     by its square ("signed square" for a signed distance), so that the  *)
(*     comparisons the program makes on it (> 0.5, < 0.01, min) are exact; *)
(*   - an angle is a whole number of quarter turns (pi/2 rad) plus, for a   *)
(*     heading, the exact direction of an integer vector (the result of    *)
(*     arctan2), so TwoPi is 4 and deg2rad divides by 90;                  *)
(*   - the product distance * cos/sin(heading) is rounded to the nearest   *)
(*     unit, the one place where the model rounds as float64 does.         *)
(***************************************************************************)
EXTENDS Integers, Sequences, FiniteSets, TLC

VARIABLES
    position,              \* rover.position            <<x, y>> in units
    home,                  \* rover.home                <<x, y>> in units
    home_vector,           \* rover.home_vector         <<x, y>> in units
    heading,               \* rover.heading             [q, off]
    distance_traveled,     \* rover.distance_traveled   units
    path_history,          \* rover.path_history
    home_vector_history,   \* rover.home_vector_history
    noise_level,           \* rover.sensor.noise_level  (hundredths of a radian)
    sun_azimuth,           \* rover.sensor.sun_azimuth  quarter turns
    pc,                    \* the run-level call in progress: "idle" (none), "foraging",
                           \* "homing" (in the loop) or "returning" (at return steps)
    step_size,             \* execute_return_home: its argument
    steps,                 \* execute_return_home: its local counter
    initial_home_distance, \* get_home_distance() on entry of execute_return_home (squared)
    last_distance,         \* the distance argument of the latest move_forward (signed square)
    reading,               \* what a caller of the sensor obtained last: [angle, vector, draws]
    result,                \* what the latest call of a command or query of the rover
                           \* returned: [query, value], NoResult for None
    twin                   \* a second rover of the same program, built by
                           \* compare_simulations: a record of its fields, NoRover if none

vars == <<position, home, home_vector, heading, distance_traveled,
          path_history, home_vector_history, noise_level, sun_azimuth,
          pc, step_size, steps, initial_home_distance,
          last_distance, reading, result, twin>>

roverVars == <<position, home, home_vector, heading, distance_traveled,
               path_history, home_vector_history>>

loopVars == <<pc, step_size, steps, initial_home_distance>>

----------------------------------------------------------------------------
(* Bounds and input sets *)

Scale == 10
MaxMoves == 2

\* the (start_position, sensor_noise) pairs a rover is constructed with
ConstructorArgs == {<<(<<0, 0>>), 0>>, <<(<<Scale, -(2 * Scale)>>), 5>>, <<(<<0, 0>>), -5>>}
Degrees == {-450, -90, 0, 90, 180, 720}
Distances == {-Scale, (3 * Scale) \div 2}
StepSizes == {-Scale, 0, Scale, 2 * Scale}
Azimuths == {-90, 450}
Targets == {-90, 0, 360}
NoiseDraws == {-1, 0, 1}

\* the loop of execute_return_home is followed for at most MaxSteps iterations:
\* more than a call with the least positive step size needs from the farthest
\* place MaxMoves moves lead to
MaxDistance == CHOOSE m \in Distances : \A d \in Distances : d <= m
MinStep == CHOOSE m \in StepSizes : m > 0 /\ \A s \in StepSizes : s > 0 => m <= s
MaxSteps == (MaxMoves * MaxDistance) \div MinStep + 2

----------------------------------------------------------------------------
(* Arithmetic *)

Abs(x) == IF x < 0 THEN -x ELSE x

Sign(x) == IF x < 0 THEN -1 ELSE IF x = 0 THEN 0 ELSE 1

SignedSq(d) == d * Abs(d)

Min(a, b) == IF a <= b THEN a ELSE b

RECURSIVE Gcd(_, _)
Gcd(a, b) == IF b = 0 THEN a ELSE Gcd(b, a % b)

\* floor(sqrt(n)) for n >= 0
FloorSqrt(n) == CHOOSE k \in 0..n : k * k <= n /\ n < (k + 1) * (k + 1)

\* round(sqrt(x / m)) for x >= 0, m > 0, to the nearest integer (half up)
RoundSqrtRatio(x, m) ==
    CHOOSE k \in 0..x :
        /\ 4 * x < (2 * k + 1) * (2 * k + 1) * m
        /\ k = 0 \/ (2 * k - 1) * (2 * k - 1) * m <= 4 * x

\* the signed distance carried by a signed square, rounded to the nearest unit
Root(dd) == Sign(dd) * RoundSqrtRatio(Abs(dd), 1)

VAdd(u, v) == <<u[1] + v[1], u[2] + v[2]>>

VSub(u, v) == <<u[1] - v[1], u[2] - v[2]>>

NormSq(v) == v[1] * v[1] + v[2] * v[2]

----------------------------------------------------------------------------
(* Angles.  A plain angle (sun azimuth, noise, a turn) is an integer number *)
(* of quarter turns.  A heading is [q, off]: q quarter turns plus the angle *)
(* of the integer vector off, which lies in [0, pi/2): off[1] > 0,          *)
(* off[2] >= 0, coprime.                                                    *)

TwoPi == 4

deg2rad(degrees) == degrees \div 90

Angle(q) == [q |-> q, off |-> <<1, 0>>]

\* (cos, sin) of a plain angle
CosSin(q) ==
    CASE q % TwoPi = 0 -> <<1, 0>>
      [] q % TwoPi = 1 -> <<0, 1>>
      [] q % TwoPi = 2 -> <<-1, 0>>
      [] OTHER         -> <<0, -1>>

\* the vector off turned by h.q quarter turns: |off| * (cos h, sin h)
Direction(h) ==
    LET x == h.off[1]
        y == h.off[2]
    IN CASE h.q % TwoPi = 0 -> <<x, y>>
         [] h.q % TwoPi = 1 -> <<-y, x>>
         [] h.q % TwoPi = 2 -> <<-x, -y>>
         [] OTHER           -> <<y, -x>>

\* np.arctan2(y, x), in (-pi, pi]
arctan2(y, x) ==
    LET g == Gcd(Abs(x), Abs(y))
    IN CASE x = 0 /\ y = 0 -> Angle(0)
         [] x > 0 /\ y >= 0 -> [q |-> 0,  off |-> <<x \div g, y \div g>>]
         [] x <= 0 /\ y > 0 -> [q |-> 1,  off |-> <<y \div g, (-x) \div g>>]
         [] x < 0 /\ y = 0  -> [q |-> 2,  off |-> <<1, 0>>]
         [] x < 0 /\ y < 0  -> [q |-> -2, off |-> <<(-x) \div g, (-y) \div g>>]
         [] OTHER           -> [q |-> -1, off |-> <<(-y) \div g, x \div g>>]

\* heading in [0, 2*pi)
InRange(h) == 0 <= h.q /\ h.q < TwoPi

----------------------------------------------------------------------------
(* PolarizedLightSensor (src/src/sensor.py) *)

\* the values np.random.normal(0, noise_level) can return; a negative scale
\* raises ValueError instead of returning
NormalDraws(scale) == IF scale = 0 THEN {0} ELSE IF scale > 0 THEN NoiseDraws ELSE {}

NoReading == [angle |-> <<>>, vector |-> <<>>, draws |-> 0]

\* None, as a call without a return statement returns it
NoResult == [query |-> "", value |-> <<>>]

\* no second rover has been built
NoRover == [pc |-> "none"]

sensorInit(noise) ==
    /\ noise_level = noise
    /\ sun_azimuth = 0
    /\ reading = NoReading

\* set_sun_position(azimuth_degrees)
SetSunPosition(azimuth_degrees) ==
    /\ pc = "idle"
    /\ sun_azimuth' = deg2rad(azimuth_degrees)
    /\ UNCHANGED <<roverVars, loopVars, noise_level, last_distance, reading>>
    /\ UNCHANGED <<result, twin>>

\* calibrate(known_sun_position)
Calibrate(known_sun_position) ==
    /\ pc = "idle"
    /\ sun_azimuth' = deg2rad(known_sun_position)
    /\ UNCHANGED <<roverVars, loopVars, noise_level, last_distance, reading>>
    /\ UNCHANGED <<result, twin>>

\* the value get_sun_direction() returns when the draw is noise
get_sun_direction(noise) == sun_azimuth + noise

\* the value get_sun_vector() returns when its own draw is noise
get_sun_vector(noise) == CosSin(get_sun_direction(noise))

\* a caller starts a new reading
BeginReading ==
    /\ reading # NoReading
    /\ reading' = NoReading
    /\ UNCHANGED <<roverVars, loopVars, noise_level, sun_azimuth, last_distance>>
    /\ UNCHANGED <<result, twin>>

\* the caller obtains the angle of its reading: get_sun_direction()
GetSunDirection(noise) ==
    /\ reading.angle = <<>>
    /\ noise \in NormalDraws(noise_level)
    /\ reading' = [reading EXCEPT !.angle = <<get_sun_direction(noise)>>,
                                  !.draws = @ + 1]
    /\ UNCHANGED <<roverVars, loopVars, noise_level, sun_azimuth, last_distance>>
    /\ UNCHANGED <<result, twin>>

\* the caller obtains the vector of its reading: get_sun_vector()
GetSunVector(noise) ==
    /\ reading.vector = <<>>
    /\ noise \in NormalDraws(noise_level)
    /\ reading' = [reading EXCEPT !.vector = <<get_sun_vector(noise)>>,
                                  !.draws = @ + 1]
    /\ UNCHANGED <<roverVars, loopVars, noise_level, sun_azimuth, last_distance>>
    /\ UNCHANGED <<result, twin>>

----------------------------------------------------------------------------
(* AntInspiredRover (src/src/rover.py) *)

\* __init__(start_position, sensor_noise)
Init ==
    \E args \in ConstructorArgs :
      LET start_position == args[1]
          sensor_noise == args[2]
      IN
        /\ position = start_position
        /\ home = start_position
        /\ home_vector = <<0, 0>>
        /\ heading = Angle(0)
        /\ distance_traveled = 0
        /\ sensorInit(sensor_noise)
        /\ path_history = <<start_position>>
        /\ home_vector_history = <<(<<0, 0>>)>>
        /\ pc = "idle"
        /\ step_size = 0
        /\ steps = 0
        /\ initial_home_distance = 0
        /\ last_distance = 0
        /\ result = NoResult
        /\ twin = NoRover

\* one component of distance * (cos, sin)(heading), to the nearest unit:
\* c is the component of Direction(h), m its squared length
MoveComponent(dd, c, m) == Sign(dd) * Sign(c) * RoundSqrtRatio(Abs(dd) * c * c, m)

\* move_forward: movement = distance * (cos(heading), sin(heading))
Movement(h, dd) ==
    LET d == Direction(h)
        m == NormSq(h.off)
    IN <<MoveComponent(dd, d[1], m), MoveComponent(dd, d[2], m)>>

\* move_forward: self.position += movement
PositionAfter(p, movement) == VAdd(p, movement)

\* a move_forward that adds the movement to the home vector
HomeVectorAfterAdded(hv, movement) == VAdd(hv, movement)

\* move_forward: self.home_vector -= movement
HomeVectorAfter(hv, movement) == VSub(hv, movement)

\* a move_forward that accumulates the magnitude of the distance
OdometerAfterMagnitude(odometer, dd) == odometer + Abs(Root(dd))

\* move_forward: self.distance_traveled += distance
OdometerAfter(odometer, dd) == odometer + Root(dd)

\* a move_forward that appends the array itself, not a copy of it: the
\* entries appended earlier are that same array and show its latest value
HistoryAfterUncopied(history, snapshot) ==
    [i \in 1..(Len(history) + 1) |-> IF i = 1 THEN history[1] ELSE snapshot]

\* move_forward: self.path_history.append(self.position.copy()), and the same
\* for home_vector_history
HistoryAfter(history, snapshot) == Append(history, snapshot)

\* move_forward(distance) under heading h; distance is the signed square dd
move_forward(h, dd) ==
    \E movement \in {Movement(h, dd)} :
       /\ position' = PositionAfter(position, movement)
       /\ home_vector' = HomeVectorAfter(home_vector, movement)
       /\ distance_traveled' = OdometerAfter(distance_traveled, dd)
       /\ path_history' =
              HistoryAfter(path_history, PositionAfter(position, movement))
       /\ home_vector_history' =
              HistoryAfter(home_vector_history, HomeVectorAfter(home_vector, movement))
       /\ last_distance' = dd
       /\ UNCHANGED home

\* a turn that leaves out the normalization
turnUnnormalized(h, angle_degrees) == [h EXCEPT !.q = h.q + deg2rad(angle_degrees)]

\* turn: the heading after turn(angle_degrees)
turn(h, angle_degrees) == [h EXCEPT !.q = (h.q + deg2rad(angle_degrees)) % TwoPi]

\* align_to_sun: target_heading for the reading sun_direction
target_heading(sun_direction, target_angle_to_sun) ==
    Angle(sun_direction + deg2rad(target_angle_to_sun))

\* get_home_distance(), squared
get_home_distance == NormSq(home_vector)

\* np.linalg.norm(self.home_vector) < 0.01
AtHome == 100 * 100 * get_home_distance < Scale * Scale

\* a get_home_direction with the arguments of arctan2 exchanged
get_home_direction_swapped ==
    IF AtHome THEN heading ELSE arctan2(home_vector[1], home_vector[2])

\* get_home_direction()
get_home_direction ==
    IF AtHome THEN heading ELSE arctan2(home_vector[2], home_vector[1])

\* a loop condition without the arrival threshold
FarFromHomeNoThreshold == get_home_distance > 0

\* self.get_home_distance() > 0.5
FarFromHome == 2 * 2 * get_home_distance > Scale * Scale

\* min(step_size, self.get_home_distance())
move_distance == Min(SignedSq(step_size), get_home_distance)

MoveForward(distance) ==
    /\ pc = "idle"
    /\ Len(path_history) <= MaxMoves
    /\ move_forward(heading, SignedSq(distance))
    /\ UNCHANGED <<heading, loopVars, noise_level, sun_azimuth, reading>>
    /\ result' = NoResult
    /\ UNCHANGED twin

Turn(angle_degrees) ==
    /\ pc = "idle"
    /\ heading' = turn(heading, angle_degrees)
    /\ UNCHANGED <<position, home, home_vector, distance_traveled, path_history,
                   home_vector_history, loopVars, noise_level, sun_azimuth,
                   last_distance, reading>>
    /\ result' = NoResult
    /\ UNCHANGED twin

\* align_to_sun(target_angle_to_sun); turn_needed is computed and not used
AlignToSun(target_angle_to_sun, noise) ==
    /\ pc = "idle"
    /\ noise \in NormalDraws(noise_level)
    /\ heading' = target_heading(get_sun_direction(noise), target_angle_to_sun)
    /\ UNCHANGED <<position, home, home_vector, distance_traveled, path_history,
                   home_vector_history, loopVars, noise_level, sun_azimuth,
                   last_distance, reading>>
    /\ result' = NoResult
    /\ UNCHANGED twin

NavigateHome ==
    /\ pc = "idle"
    /\ heading' = get_home_direction
    /\ UNCHANGED <<position, home, home_vector, distance_traveled, path_history,
                   home_vector_history, loopVars, noise_level, sun_azimuth,
                   last_distance, reading>>
    /\ result' = NoResult
    /\ UNCHANGED twin

\* get_path_efficiency(): the ratio sqrt(r[1]) / r[2] of the straight-line
\* distance from home to the odometer, 1.0 when the odometer is 0
get_path_efficiency ==
    IF distance_traveled = 0
    THEN <<1, 1>>
    ELSE <<NormSq(VSub(position, home)), distance_traveled>>

\* the value v that the query returned
Returned(query, v) == [query |-> query, value |-> <<v>>]

GetHomeDirection ==
    /\ pc = "idle"
    /\ result' = Returned("get_home_direction", get_home_direction)
    /\ UNCHANGED <<roverVars, loopVars, noise_level, sun_azimuth,
                   last_distance, reading, twin>>

GetHomeDistance ==
    /\ pc = "idle"
    /\ result' = Returned("get_home_distance", get_home_distance)
    /\ UNCHANGED <<roverVars, loopVars, noise_level, sun_azimuth,
                   last_distance, reading, twin>>

\* a get_path_efficiency that takes the difference in place:
\* self.position -= self.home
GetPathEfficiencyInPlace ==
    /\ pc = "idle"
    /\ position' = VSub(position, home)
    /\ result' = Returned("get_path_efficiency",
                          IF distance_traveled = 0
                          THEN <<1, 1>>
                          ELSE <<NormSq(VSub(position, home)), distance_traveled>>)
    /\ UNCHANGED <<home, home_vector, heading, distance_traveled, path_history,
                   home_vector_history, loopVars, noise_level, sun_azimuth,
                   last_distance, reading, twin>>

GetPathEfficiency ==
    /\ pc = "idle"
    /\ result' = Returned("get_path_efficiency", get_path_efficiency)
    /\ UNCHANGED <<roverVars, loopVars, noise_level, sun_azimuth,
                   last_distance, reading, twin>>

\* execute_foraging_run(moves): entry
ForagingStart ==
    /\ pc = "idle"
    /\ pc' = "foraging"
    /\ UNCHANGED <<roverVars, step_size, steps, initial_home_distance,
                   noise_level, sun_azimuth, last_distance, reading>>
    /\ UNCHANGED <<result, twin>>

\* execute_foraging_run: one iteration, for the next (angle, distance) of moves
ForagingMove(angle, distance) ==
    /\ pc = "foraging"
    /\ Len(path_history) <= MaxMoves
    /\ \E turned \in {turn(heading, angle)} :
          /\ heading' = turned
          /\ move_forward(turned, SignedSq(distance))
    /\ UNCHANGED <<loopVars, noise_level, sun_azimuth, reading>>
    /\ UNCHANGED <<result, twin>>

\* execute_foraging_run: moves is exhausted
ForagingEnd ==
    /\ pc = "foraging"
    /\ pc' = "idle"
    /\ UNCHANGED <<roverVars, step_size, steps, initial_home_distance,
                   noise_level, sun_azimuth, last_distance, reading>>
    /\ UNCHANGED <<result, twin>>

\* execute_return_home(step_size): entry, steps = 0
ReturnHomeStart(size) ==
    /\ pc = "idle"
    /\ pc' = "homing"
    /\ step_size' = size
    /\ steps' = 0
    /\ initial_home_distance' = get_home_distance
    /\ UNCHANGED <<roverVars, noise_level, sun_azimuth, last_distance, reading>>
    /\ UNCHANGED <<result, twin>>

\* execute_return_home: one iteration of the while loop
ReturnHomeStep ==
    /\ pc = "homing"
    /\ FarFromHome
    /\ steps < MaxSteps
    /\ \E home_direction \in {get_home_direction}, distance \in {move_distance} :
          /\ heading' = home_direction
          /\ move_forward(home_direction, distance)
    /\ steps' = steps + 1
    /\ UNCHANGED <<pc, step_size, initial_home_distance,
                   noise_level, sun_azimuth, reading>>
    /\ UNCHANGED <<result, twin>>

\* execute_return_home: the loop condition fails; steps is what will be returned
ReturnHomeExit ==
    /\ pc = "homing"
    /\ ~FarFromHome
    /\ pc' = "returning"
    /\ UNCHANGED <<roverVars, step_size, steps, initial_home_distance,
                   noise_level, sun_azimuth, last_distance, reading>>
    /\ UNCHANGED <<result, twin>>

\* execute_return_home: return steps; the locals of the call are gone
ReturnHomeReturn ==
    /\ pc = "returning"
    /\ pc' = "idle"
    /\ step_size' = 0
    /\ steps' = 0
    /\ initial_home_distance' = 0
    /\ UNCHANGED <<roverVars, noise_level, sun_azimuth, last_distance, reading>>
    /\ UNCHANGED <<result, twin>>

----------------------------------------------------------------------------
(* Two rovers of the same program, as compare_simulations builds them: the  *)
(* same start position, different sensor noise, the same run-level calls    *)
(* with the same arguments.  A rover is a record r of its fields and of the  *)
(* position (pc) and locals (step_size, steps) of its run-level call; each  *)
(* method is the function from the rover before the call to the rover after. *)

\* AntInspiredRover(start_position, sensor_noise)
Rover(start_position, sensor_noise) ==
    [position |-> start_position,
     home |-> start_position,
     home_vector |-> <<0, 0>>,
     heading |-> Angle(0),
     distance_traveled |-> 0,
     noise_level |-> sensor_noise,
     sun_azimuth |-> 0,
     path_history |-> <<start_position>>,
     home_vector_history |-> <<(<<0, 0>>)>>,
     pc |-> "idle",
     step_size |-> 0,
     steps |-> 0]

\* the rover that the variables hold
Self ==
    [position |-> position,
     home |-> home,
     home_vector |-> home_vector,
     heading |-> heading,
     distance_traveled |-> distance_traveled,
     noise_level |-> noise_level,
     sun_azimuth |-> sun_azimuth,
     path_history |-> path_history,
     home_vector_history |-> home_vector_history,
     pc |-> pc,
     step_size |-> step_size,
     steps |-> steps]

\* the rover that the variables hold becomes r
Becomes(r) ==
    /\ position' = r.position
    /\ home' = r.home
    /\ home_vector' = r.home_vector
    /\ heading' = r.heading
    /\ distance_traveled' = r.distance_traveled
    /\ noise_level' = r.noise_level
    /\ sun_azimuth' = r.sun_azimuth
    /\ path_history' = r.path_history
    /\ home_vector_history' = r.home_vector_history
    /\ pc' = r.pc
    /\ step_size' = r.step_size
    /\ steps' = r.steps

\* r.move_forward(distance); distance is the signed square dd
rover_move_forward(r, dd) ==
    LET movement == Movement(r.heading, dd)
    IN [r EXCEPT
          !.position = PositionAfter(@, movement),
          !.home_vector = HomeVectorAfter(@, movement),
          !.distance_traveled = OdometerAfter(@, dd),
          !.path_history = HistoryAfter(@, PositionAfter(r.position, movement)),
          !.home_vector_history =
              HistoryAfter(@, HomeVectorAfter(r.home_vector, movement))]

\* r.turn(angle_degrees)
rover_turn(r, angle_degrees) == [r EXCEPT !.heading = turn(@, angle_degrees)]

\* r.align_to_sun(target_angle_to_sun), the draw of its sensor being noise
rover_align_to_sun(r, target_angle_to_sun, noise) ==
    [r EXCEPT !.heading = target_heading(r.sun_azimuth + noise, target_angle_to_sun)]

\* r.get_home_distance(), squared
rover_home_distance(r) == NormSq(r.home_vector)

\* r.get_home_direction()
rover_home_direction(r) ==
    IF 100 * 100 * rover_home_distance(r) < Scale * Scale
    THEN r.heading
    ELSE arctan2(r.home_vector[2], r.home_vector[1])

\* r.navigate_home()
rover_navigate_home(r) == [r EXCEPT !.heading = rover_home_direction(r)]

\* execute_foraging_run of r: one iteration, for the move (angle, distance)
rover_foraging_move(r, angle, distance) ==
    rover_move_forward(rover_turn(r, angle), SignedSq(distance))

\* execute_return_home of r: the loop condition
rover_far_from_home(r) == 2 * 2 * rover_home_distance(r) > Scale * Scale

\* execute_return_home of r: one iteration of the while loop
rover_return_home_iteration(r) ==
    LET facing == rover_navigate_home(r)
        distance == Min(SignedSq(r.step_size), rover_home_distance(facing))
    IN [rover_move_forward(facing, distance) EXCEPT !.steps = @ + 1]

\* execute_return_home of r goes on: one more iteration, or the loop ends;
\* a rover that has left the loop waits at its return
rover_return_home_step(r) ==
    IF r.pc # "homing" THEN r
    ELSE IF rover_far_from_home(r) THEN rover_return_home_iteration(r)
    ELSE [r EXCEPT !.pc = "returning"]

\* the sensor noise levels rovers are built with
NoiseLevels == {args[2] : args \in ConstructorArgs}

\* the frame of the calls made on both rovers
pairFrame == <<initial_home_distance, last_distance, reading, result>>

\* compare_simulations: a second rover, same start position, other noise
ConstructTwin(sensor_noise) ==
    /\ twin = NoRover
    /\ pc = "idle"
    /\ sensor_noise # noise_level
    /\ twin' = Rover(home, sensor_noise)
    /\ UNCHANGED <<roverVars, loopVars, noise_level, sun_azimuth,
                   last_distance, reading, result>>

\* both rovers: execute_foraging_run(moves), entry
PairForagingStart ==
    /\ pc = "idle"
    /\ twin.pc = "idle"
    /\ Becomes([Self EXCEPT !.pc = "foraging"])
    /\ twin' = [twin EXCEPT !.pc = "foraging"]
    /\ UNCHANGED pairFrame

\* a foraging iteration that orients by the sun, align_to_sun(angle) in the
\* place of turn(angle), each rover reading its own sensor
PairForagingMoveBySun(angle, distance) ==
    /\ pc = "foraging"
    /\ twin.pc = "foraging"
    /\ Len(path_history) <= MaxMoves
    /\ \E n1 \in NormalDraws(noise_level), n2 \in NormalDraws(twin.noise_level) :
          /\ Becomes(rover_move_forward(rover_align_to_sun(Self, angle, n1),
                                        SignedSq(distance)))
          /\ twin' = rover_move_forward(rover_align_to_sun(twin, angle, n2),
                                        SignedSq(distance))
    /\ UNCHANGED pairFrame

\* both rovers: the next (angle, distance) of the same moves
PairForagingMove(angle, distance) ==
    /\ pc = "foraging"
    /\ twin.pc = "foraging"
    /\ Len(path_history) <= MaxMoves
    /\ Becomes(rover_foraging_move(Self, angle, distance))
    /\ twin' = rover_foraging_move(twin, angle, distance)
    /\ UNCHANGED pairFrame

\* both rovers: moves is exhausted
PairForagingEnd ==
    /\ pc = "foraging"
    /\ twin.pc = "foraging"
    /\ Becomes([Self EXCEPT !.pc = "idle"])
    /\ twin' = [twin EXCEPT !.pc = "idle"]
    /\ UNCHANGED pairFrame

\* both rovers: execute_return_home(step_size), entry, with the same step_size
PairReturnHomeStart(size) ==
    /\ pc = "idle"
    /\ twin.pc = "idle"
    /\ Becomes([Self EXCEPT !.pc = "homing", !.step_size = size, !.steps = 0])
    /\ twin' = [twin EXCEPT !.pc = "homing", !.step_size = size, !.steps = 0]
    /\ UNCHANGED pairFrame

\* both rovers: each call of execute_return_home goes on by its own loop
\* condition
PairReturnHomeStep ==
    /\ pc = "homing" \/ twin.pc = "homing"
    /\ steps < MaxSteps
    /\ twin.steps < MaxSteps
    /\ Becomes(rover_return_home_step(Self))
    /\ twin' = rover_return_home_step(twin)
    /\ UNCHANGED pairFrame

\* both rovers: return steps; the locals of the calls are gone
PairReturnHomeReturn ==
    /\ pc = "returning"
    /\ twin.pc = "returning"
    /\ Becomes([Self EXCEPT !.pc = "idle", !.step_size = 0, !.steps = 0])
    /\ twin' = [twin EXCEPT !.pc = "idle", !.step_size = 0, !.steps = 0]
    /\ UNCHANGED pairFrame

\* compare_simulations: the rovers are built, then each call is made on both
PairNext ==
    \/ \E n \in NoiseLevels : ConstructTwin(n)
    \/ PairForagingStart
    \/ \E a \in Degrees, d \in Distances : PairForagingMove(a, d)
    \/ PairForagingEnd
    \/ \E s \in StepSizes : PairReturnHomeStart(s)
    \/ PairReturnHomeStep
    \/ PairReturnHomeReturn

PairSpec == Init /\ [][PairNext]_vars

----------------------------------------------------------------------------
\* the operations of the rover and the sun position of its sensor, called one
\* by one in any order
Next ==
    \/ \E d \in Distances : MoveForward(d)
    \/ \E a \in Degrees : Turn(a)
    \/ \E t \in Targets, n \in NoiseDraws : AlignToSun(t, n)
    \/ NavigateHome
    \/ \E az \in Azimuths : SetSunPosition(az)

Spec == Init /\ [][Next]_vars

\* the run-level calls: foraging runs and returns home, as
\* run_single_simulation drives them, in any order and number; within
\* execute_return_home the loop runs on, the program being sequential
HomingNext ==
    \/ ForagingStart
    \/ \E a \in Degrees, d \in Distances : ForagingMove(a, d)
    \/ ForagingEnd
    \/ \E s \in StepSizes : ReturnHomeStart(s)
    \/ ReturnHomeStep
    \/ ReturnHomeExit
    \/ ReturnHomeReturn

HomingSpec ==
    Init /\ [][HomingNext]_vars /\ WF_vars(ReturnHomeStep) /\ WF_vars(ReturnHomeExit)

\* the commands and the queries of one rover, called one by one in any order
QueryNext ==
    \/ \E d \in Distances : MoveForward(d)
    \/ \E a \in Degrees : Turn(a)
    \/ \E t \in Targets, n \in NoiseDraws : AlignToSun(t, n)
    \/ NavigateHome
    \/ GetHomeDirection
    \/ GetHomeDistance
    \/ GetPathEfficiency

QuerySpec == Init /\ [][QueryNext]_vars

\* the sensor on its own, driven by a caller that takes readings
SensorNext ==
    \/ \E az \in Azimuths : SetSunPosition(az)
    \/ \E az \in Azimuths : Calibrate(az)
    \/ BeginReading
    \/ \E n \in NoiseDraws : GetSunDirection(n)
    \/ \E n \in NoiseDraws : GetSunVector(n)

SensorSpec == Init /\ [][SensorNext]_vars

----------------------------------------------------------------------------
(* Properties *)

\* ceil(sqrt(n) / s) for n >= 0, s > 0: the least k with k * s >= sqrt(n)
CeilRootDiv(n, s) ==
    CHOOSE k \in 0..(FloorSqrt(n) + 1) :
        /\ k * s * k * s >= n
        /\ k = 0 \/ (k - 1) * s * (k - 1) * s < n

\* ceil((sqrt(n) - h) / s) for n >= 0, s > 0, h >= 0, floored at 0:
\* the least k with sqrt(n) - k * s <= h
CeilRootLessDiv(n, h, s) ==
    CHOOSE k \in 0..(FloorSqrt(n) + 1) :
        /\ (k * s + h) * (k * s + h) >= n
        /\ k = 0 \/ ((k - 1) * s + h) * ((k - 1) * s + h) < n

\* C1: in every state, after every call of every operation, home_vector
\* equals home minus position.
HomeVectorInvariant == home_vector = VSub(home, position)

HomeVectorWitness ==
    /\ Len(path_history) = MaxMoves + 1
    /\ home # <<0, 0>>
    /\ position[1] # home[1]
    /\ position[2] # home[2]
    /\ last_distance < 0

\* C2: for step_size > 0 and a state reached by a foraging run,
\* execute_return_home makes at most ceil(initial_home_distance / step_size)
\* iterations, and it returns.
ReturnHomeTerminatesWithinBound ==
    (pc = "homing" /\ step_size > 0)
        ~> (/\ pc = "returning"
            /\ step_size > 0
            /\ steps <= CeilRootDiv(initial_home_distance, step_size))

ReturnHomeBoundWitness ==
    /\ pc = "returning"
    /\ step_size > 0
    /\ steps >= 2
    /\ steps = CeilRootDiv(initial_home_distance, step_size)

\* C3 as stated: with noise level 0, execute_return_home(step_size = 1.0)
\* returns exactly ceil(D / 1.0) for the initial home distance D.
ReturnsCeilOfDistance ==
    (pc = "returning" /\ noise_level = 0 /\ step_size = Scale)
        => steps = CeilRootDiv(initial_home_distance, Scale)

\* C3 amended: with noise level 0, execute_return_home(step_size = 1.0)
\* returns exactly ceil(D - 0.5), and 0 when D <= 0.5.
ReturnsCeilOfDistanceLessHalf ==
    (pc = "returning" /\ noise_level = 0 /\ step_size = Scale)
        => steps = CeilRootLessDiv(4 * initial_home_distance, Scale, 2 * Scale)

ReturnsLessThanCeilWitness ==
    /\ pc = "returning"
    /\ noise_level = 0
    /\ step_size = Scale
    /\ steps >= 1
    /\ steps < CeilRootDiv(initial_home_distance, Scale)

\* the trajectory and orientation state that a movement changes
movementVars == <<position, home_vector, distance_traveled, heading,
                  path_history, home_vector_history>>

\* C4: in every iteration of the loop of execute_return_home the home
\* distance gets strictly smaller and the move made is at most the home
\* distance before it, and the loop is left only at a home distance <= 0.5.
MonotonicConvergence ==
    [][/\ (pc = "homing" /\ steps' = steps + 1) =>
              /\ NormSq(home_vector') < NormSq(home_vector)
              /\ last_distance' <= NormSq(home_vector)
       /\ (pc = "homing" /\ pc' = "returning") => ~FarFromHome]_vars

\* C5: execute_return_home called with step_size <= 0 performs no movement:
\* position, home_vector, odometer, heading and the logs stay as they are.
InvalidStepSizeMovesNothing ==
    [][(pc = "homing" /\ step_size <= 0) => UNCHANGED movementVars]_vars

\* C6: no sensor with a negative noise level exists.
NoiseLevelNonNegative == noise_level >= 0

\* C7 as stated: the odometer is never negative and never decreases.
OdometerNeverDecreases ==
    [][distance_traveled' >= distance_traveled /\ distance_traveled' >= 0]_vars

\* C7 amended: the odometer is changed by move_forward only, by exactly the
\* signed distance argument, so it does not decrease when that is >= 0.
OdometerAddsSignedDistance ==
    [][IF Len(path_history') = Len(path_history) + 1
       THEN /\ distance_traveled' = distance_traveled + Root(last_distance')
            /\ last_distance' >= 0 => distance_traveled' >= distance_traveled
       ELSE distance_traveled' = distance_traveled]_vars

OdometerWitness ==
    /\ Len(path_history) = 3
    /\ last_distance > 0
    /\ distance_traveled = (3 * Scale) \div 2 - Scale

\* C8: a caller who has obtained the angle and the vector of one reading has
\* vector = (cos(angle), sin(angle)), and one draw was made for it.
SingleSampleReading ==
    (reading.angle # <<>> /\ reading.vector # <<>>)
        => /\ reading.vector[1] = CosSin(reading.angle[1])
           /\ reading.draws = 1

\* C9: after align_to_sun(target) the heading is the sampled sun angle plus
\* radians(target), normalized into [0, 2*pi).
AlignToSunNormalizes ==
    [][\A t \in Targets, n \in NoiseDraws :
           AlignToSun(t, n) =>
               /\ heading' = Angle((get_sun_direction(n) + deg2rad(t)) % TwoPi)
               /\ InRange(heading')]_vars

\* C10: after a turn call, whatever its degree argument, the heading lies in
\* [0, 2*pi); so it does after any sequence of turn calls.
TurnNormalizes ==
    [][(\E a \in Degrees : Turn(a)) => InRange(heading')]_vars

TurnWitness ==
    /\ heading = Angle(3)
    /\ Len(path_history) = 1

\* a step in which move_forward is called: directly, by an iteration of
\* execute_foraging_run or by an iteration of execute_return_home
MoveForwardCall ==
    \/ \E d \in Distances : MoveForward(d)
    \/ \E a \in Degrees, d \in Distances : ForagingMove(a, d)
    \/ ReturnHomeStep

\* C11: the position log and the home-vector log have the same length, 1
\* after construction (entry 0 is the state before any movement) and one more
\* after each move_forward call, whose entry is the position and home vector
\* after that move; no other operation touches the logs, and a move_forward
\* leaves the entries already there as they are.
TrajectoryLogsRecordMoves ==
    /\ path_history = <<position>>
    /\ home_vector_history = <<home_vector>>
    /\ [][/\ Len(path_history') = Len(home_vector_history')
          /\ IF MoveForwardCall
             THEN /\ path_history' = Append(path_history, position')
                  /\ home_vector_history' = Append(home_vector_history, home_vector')
             ELSE UNCHANGED <<path_history, home_vector_history>>]_vars

TrajectoryLogsWitness ==
    /\ Len(path_history) = MaxMoves + 1
    /\ Len(home_vector_history) = MaxMoves + 1
    /\ path_history[1] # path_history[2]
    /\ path_history[2] # path_history[3]
    /\ home_vector_history[2] # home_vector_history[3]
    /\ heading # Angle(0)

\* C12: once execute_return_home has started on a rover, that rover is never
\* again in a foraging run: no execute_foraging_run takes it back to FORAGING.
NoReturnToForaging ==
    []((pc = "homing" \/ pc = "returning") => [](pc # "foraging"))

\* a step in which an orientation command is called
OrientationCall ==
    \/ \E a \in Degrees : Turn(a)
    \/ \E t \in Targets, n \in NoiseDraws : AlignToSun(t, n)
    \/ NavigateHome

\* a step in which a query is called
QueryCall == GetHomeDirection \/ GetHomeDistance \/ GetPathEfficiency

\* C13: turn, align_to_sun, navigate_home, get_home_direction,
\* get_home_distance and get_path_efficiency leave position, home,
\* home_vector, the odometer and both logs as they are; the three queries
\* leave the heading as it is too; and no operation changes home.
OrientationAndQueriesMoveNothing ==
    [][/\ (OrientationCall \/ QueryCall) =>
              UNCHANGED <<position, home, home_vector, distance_traveled,
                          path_history, home_vector_history>>
       /\ QueryCall => UNCHANGED heading
       /\ UNCHANGED home]_vars

OrientationAndQueriesWitness ==
    /\ result.query = "get_path_efficiency"
    /\ result.value # <<(<<1, 1>>)>>
    /\ Len(path_history) = MaxMoves + 1
    /\ home # <<0, 0>>
    /\ position # home
    /\ ~InRange(heading)

\* C14: two rovers with the same start position, the same
\* execute_foraging_run moves and the same execute_return_home step_size, but
\* different sensor noise, have the same position, home vector, odometer,
\* logs and step count at every point of the run.
SensorNoiseChangesNothing ==
    (twin # NoRover) =>
        /\ twin.noise_level # noise_level
        /\ twin.position = position
        /\ twin.home_vector = home_vector
        /\ twin.distance_traveled = distance_traveled
        /\ twin.path_history = path_history
        /\ twin.home_vector_history = home_vector_history
        /\ twin.pc = pc
        /\ twin.steps = steps

SensorNoiseWitness ==
    /\ twin # NoRover
    /\ noise_level > 0
    /\ twin.noise_level = 0
    /\ pc = "returning"
    /\ twin.pc = "returning"
    /\ step_size > 0
    /\ steps >= 2
    /\ twin.steps >= 2
    /\ Len(twin.path_history) >= MaxMoves + 3

====
